---------------------------- MODULE Spec2Model ----------------------------
(***************************************************************************)
(* Model of src/main.py: the category store (TinyDB table "categories"),   *)
(* the parsing of the categorization reply, and the row pipeline that      *)
(* calls the LLM twice per row and appends four result columns.            *)
(*                                                                         *)
(* Text that comes from the LLM is a sequence of one-character strings, so *)
(* that strip / rsplit / replace / float are computed character by         *)
(* character.  Category names of the store and cell values of the uploaded *)
(* table are never inspected character by character by the code and stay   *)
(* TLA+ strings.                                                           *)
(***************************************************************************)
EXTENDS Integers, Sequences, FiniteSets, TLC

VARIABLES
    category_table,      \* TinyDB table: the "name" of each record, in insertion order
    current_categories,  \* the list read at line 170 of the current script run
    run_started_empty,   \* history: the table was empty when the current script run began
    reads,               \* history: every get_categories() result of the last step
    last_op,             \* history: the last store call, its argument and the table before it
    uploaded,            \* the uploaded table and the selected payee column
    df,                  \* the data frame of the current script run (sequence of columns)
    pc,                  \* position of the script
    i,                   \* loop index of line 214 (0-based)
    merchant, category, confidence,                  \* loop locals of lines 216-222
    merchants, categories, confidences, error_logs,  \* accumulators of lines 206-209
    calls,               \* history: every call_openrouter of the batch, in issue order
    response, parsed     \* the reply under test and its parse (parser specification)

vars == << category_table, current_categories, run_started_empty, reads, last_op,
           uploaded, df, pc, i, merchant, category, confidence,
           merchants, categories, confidences, error_logs, calls, response, parsed >>

-----------------------------------------------------------------------------
(* Bounds *)

MaxRows == 2

MaxReplyLen == 5

-----------------------------------------------------------------------------
(* Python str operations on character sequences *)

Range(s) == { s[k] : k \in DOMAIN s }

\* str.strip() with no argument strips whitespace; the replies of the model
\* are built from the space character as the only whitespace.
IsSpace(c) == c = " "

RECURSIVE lstrip(_)
lstrip(s) == IF s # << >> /\ IsSpace(Head(s)) THEN lstrip(Tail(s)) ELSE s

RECURSIVE rstrip(_)
rstrip(s) ==
    IF s # << >> /\ IsSpace(s[Len(s)]) THEN rstrip(SubSeq(s, 1, Len(s) - 1)) ELSE s

strip(s) == rstrip(lstrip(s))

\* c in s
contains(s, c) == \E k \in DOMAIN s : s[k] = c

LastIndex(s, c) == CHOOSE k \in DOMAIN s : s[k] = c /\ \A j \in DOMAIN s : j > k => s[j] # c

\* s.rsplit(c, 1) for s containing c: the text before and after the last c
rsplit(s, c) ==
    LET k == LastIndex(s, c) IN << SubSeq(s, 1, k - 1), SubSeq(s, k + 1, Len(s)) >>

\* s.replace(c, "")
replace(s, c) == SelectSeq(s, LAMBDA x : x # c)

-----------------------------------------------------------------------------
(* float(), * 100 and round(., 2) *)

Digits == { "0", "1", "2", "3", "4", "5", "6", "7", "8", "9" }

DigitVal(c) ==
    CASE c = "0" -> 0 [] c = "1" -> 1 [] c = "2" -> 2 [] c = "3" -> 3 [] c = "4" -> 4
      [] c = "5" -> 5 [] c = "6" -> 6 [] c = "7" -> 7 [] c = "8" -> 8 [] c = "9" -> 9

RECURSIVE ToNat(_)
ToNat(ds) == IF ds = << >> THEN 0 ELSE ToNat(SubSeq(ds, 1, Len(ds) - 1)) * 10 + DigitVal(ds[Len(ds)])

RECURSIVE Pow10(_)
Pow10(n) == IF n = 0 THEN 1 ELSE 10 * Pow10(n - 1)

NotAFloat == [ok |-> FALSE, cls |-> "none", neg |-> FALSE, mant |-> 0, scale |-> 0]

\* float(s): [sign] digits [. digits] | [sign] . digits | [sign] inf | infinity | nan,
\* surrounding whitespace ignored; anything else raises ValueError (ok = FALSE).
\* The value is mant / 10^scale.  Exponents, underscores and upper-case
\* spellings of inf/nan need characters that neither ReplyAlphabet nor the
\* parenthesised parts of CategoryContents hold.
float(s) ==
    LET t      == strip(s)
        signed == t # << >> /\ Head(t) \in { "-", "+" }
        neg    == t # << >> /\ Head(t) = "-"
        body   == IF signed THEN Tail(t) ELSE t
        dots   == { k \in DOMAIN body : body[k] = "." }
        digs   == SelectSeq(body, LAMBDA c : c \in Digits)
    IN  IF body \in { << "i", "n", "f" >>, << "i", "n", "f", "i", "n", "i", "t", "y" >> }
          THEN [ok |-> TRUE, cls |-> "inf", neg |-> neg, mant |-> 0, scale |-> 0]
        ELSE IF body = << "n", "a", "n" >>
          THEN [ok |-> TRUE, cls |-> "nan", neg |-> neg, mant |-> 0, scale |-> 0]
        ELSE IF /\ \A k \in DOMAIN body : body[k] \in Digits \cup { "." }
                /\ Cardinality(dots) <= 1
                /\ digs # << >>
          THEN [ok |-> TRUE, cls |-> "finite", neg |-> neg, mant |-> ToNat(digs),
                scale |-> IF dots = {} THEN 0 ELSE Len(body) - (CHOOSE k \in dots : TRUE)]
        ELSE NotAFloat

\* A confidence value: "" (cls = "empty") or a float.  A finite float is held
\* in hundredths: val = 8500 is 85.0.
EmptyConfidence == [cls |-> "empty", val |-> 0]

UnboundConfidence == [cls |-> "unbound", val |-> 0]

\* round(f * 100, 2) of a parsed float: the nearest multiple of 0.01 to
\* mant * 100 / 10^scale (exact when scale <= 4, ties to even beyond).
times100_round2(f) ==
    IF f.cls = "nan" THEN [cls |-> "nan", val |-> 0]
    ELSE IF f.cls = "inf" THEN [cls |-> "inf", val |-> IF f.neg THEN -1 ELSE 1]
    ELSE LET num == f.mant * 10000
             den == Pow10(f.scale)
             q   == num \div den
             r   == num % den
             up  == (2 * r > den) \/ (2 * r = den /\ q % 2 = 1)
             mag == IF up THEN q + 1 ELSE q
         IN  [cls |-> "finite", val |-> IF f.neg THEN 0 - mag ELSE mag]

-----------------------------------------------------------------------------
(* infer_expense_category, lines 126-137: the parse of the reply *)

\* lines 130-133 without the try/except: a ValueError of float() escapes
confidence_unguarded(right) ==
    LET f == float(strip(replace(right, ")")))
    IN  IF f.ok THEN [raised |-> FALSE, confidence |-> times100_round2(f)]
        ELSE [raised |-> TRUE, confidence |-> UnboundConfidence]

\* lines 130-133: try: round(float(parts[1].replace(")", "").strip()) * 100, 2)
\*                except: ""
try_confidence(right) ==
    LET f == float(strip(replace(right, ")")))
    IN  IF f.ok THEN [raised |-> FALSE, confidence |-> times100_round2(f)]
        ELSE [raised |-> FALSE, confidence |-> EmptyConfidence]

FirstIndex(s, c) == CHOOSE k \in DOMAIN s : s[k] = c /\ \A j \in DOMAIN s : j < k => s[j] # c

\* the reply split on its first "(" instead of its last
split_on_first_paren(resp) ==
    LET k == FirstIndex(resp, "(") IN << SubSeq(resp, 1, k - 1), SubSeq(resp, k + 1, Len(resp)) >>

\* line 128: parts = response.rsplit("(", 1)
split_reply(resp) == rsplit(resp, "(")

\* lines 127-137, given the reply of line 126.  raised: an exception leaves
\* the function (none does: the only raising call sits in the try of line 130).
parse_reply(resp) ==
    IF contains(resp, "(") /\ contains(resp, ")")
      THEN LET parts == split_reply(resp)
               c     == try_confidence(parts[2])
           IN  [raised |-> c.raised, category |-> strip(parts[1]), confidence |-> c.confidence]
      ELSE [raised |-> FALSE, category |-> strip(resp), confidence |-> EmptyConfidence]

-----------------------------------------------------------------------------
(* Category store, lines 19-75 *)

\* lines 25-60
default_categories == <<
    "Advertising & Marketing",
    "Bank & Payment Fees",
    "Car & Vehicle Expenses",
    "Charitable Contributions",
    "Computer & Internet Expenses",
    "Consulting & Professional Services",
    "Contractors & Freelancers",
    "Dues & Subscriptions",
    "Education & Training",
    "Employee Benefits",
    "Entertainment & Client Hospitality",
    "Equipment & Furniture",
    "Freight & Courier Charges",
    "Gifts & Donations",
    "Government Fees & Licenses",
    "Insurance (General)",
    "Legal & Accounting Services",
    "Meals & Beverages (Business)",
    "Meals & Beverages (Personal/Employee)",
    "Office Supplies",
    "Payroll Expenses",
    "Postage & Shipping",
    "Printing & Stationery",
    "Rent & Lease Payments",
    "Repairs & Maintenance",
    "Software & SaaS Tools",
    "Taxes (Sales, VAT, GST)",
    "Telecom & Mobile Services",
    "Tools & Small Assets",
    "Travel - Airfare",
    "Travel - Accommodation",
    "Travel - Ground Transport",
    "Utilities (Gas, Water, Electricity)",
    "Unknown / Miscellaneous" >>

\* Python compares str by code point.  The names the model handles, in that
\* order (the dash of the three "Travel" names is U+2013 in the source and is
\* written "-" here; it sorts after the letters either way, and the three
\* names differ after it).
CodePointOrder == <<
    "",
    "Advertising & Marketing",
    "Alpha",
    "Bank & Payment Fees",
    "Car & Vehicle Expenses",
    "Charitable Contributions",
    "Computer & Internet Expenses",
    "Consulting & Professional Services",
    "Contractors & Freelancers",
    "Dues & Subscriptions",
    "Education & Training",
    "Employee Benefits",
    "Entertainment & Client Hospitality",
    "Equipment & Furniture",
    "Freight & Courier Charges",
    "Gifts & Donations",
    "Government Fees & Licenses",
    "Insurance (General)",
    "Legal & Accounting Services",
    "Meals & Beverages (Business)",
    "Meals & Beverages (Personal/Employee)",
    "Office Supplies",
    "Payroll Expenses",
    "Postage & Shipping",
    "Printing & Stationery",
    "Rent & Lease Payments",
    "Repairs & Maintenance",
    "Software & SaaS Tools",
    "Taxes (Sales, VAT, GST)",
    "Telecom & Mobile Services",
    "Tools & Small Assets",
    "Travel - Accommodation",
    "Travel - Airfare",
    "Travel - Ground Transport",
    "Unknown / Miscellaneous",
    "Utilities (Gas, Water, Electricity)",
    "Zoo",
    "office supplies" >>

\* a < b for two str
StrLess(a, b) ==
    \E ka, kb \in DOMAIN CodePointOrder :
        CodePointOrder[ka] = a /\ CodePointOrder[kb] = b /\ ka < kb

\* line 64 without effect: the table is left as found
initialize_skipped(table) == table

\* lines 24-62: insert the defaults when the table is empty
initialize_categories(table) == IF Len(table) = 0 THEN default_categories ELSE table

\* line 68: sorted(set(row['name'] for row in category_table.all())).  The
\* sort keeps, of the names in code point order, those of the set.
get_categories(table) == SelectSeq(CodePointOrder, LAMBDA n : n \in Range(table))

\* insert without the membership test of line 71
add_category_unchecked(table, new_cat) ==
    IF new_cat # "" THEN Append(table, new_cat) ELSE table

\* lines 70-72
add_category(table, new_cat) ==
    IF new_cat # "" /\ new_cat \notin Range(get_categories(table))
      THEN Append(table, new_cat)
      ELSE table

\* line 75: remove every record whose name equals cat_name
delete_category(table, cat_name) == SelectSeq(table, LAMBDA n : n # cat_name)

-----------------------------------------------------------------------------
(* Values of the row pipeline, lines 203-237 *)

\* "" as text
EmptyText == << >>

\* "ERROR", line 220
ERROR == << "E", "R", "R", "O", "R" >>

\* "Unknown / Miscellaneous", line 221
UnknownMiscellaneous == << "U", "n", "k", "n", "o", "w", "n", " ", "/", " ", "M", "i", "s", "c", "e", "l", "l", "a", "n", "e", "o", "u", "s" >>

\* a loop local that no statement has assigned yet
UnboundText == << "<unbound>" >>

\* str(e) of the exceptions call_openrouter raises (lines 83-86): a timeout of
\* requests.post, a KeyError of the lookup of line 86.  Each carries a message.
ErrorMessages == {
    << "R", "e", "a", "d", " ", "t", "i", "m", "e", "d", " ", "o", "u", "t" >>,
    << "'", "c", "h", "o", "i", "c", "e", "s", "'" >> }

\* str(e) of the ValueError of float()
ValueErrorMessage == << "c", "o", "u", "l", "d", " ", "n", "o", "t", " ", "c", "o", "n", "v", "e", "r", "t", " ", "s", "t", "r", "i", "n", "g", " ", "t", "o", " ", "f", "l", "o", "a", "t" >>

\* result["choices"][0]["message"]["content"] of an extraction reply, before
\* the strip of line 86
MerchantContents == {
    << "A", "C", "M", "E" >>,
    << " ", "U", "b", "e", "r", " " >> }

\* ... and of a categorization reply
CategoryContents == {
    << "O", "f", "f", "i", "c", "e", " ", "S", "u", "p", "p", "l", "i", "e", "s", " ", "(", "0", ".", "8", "5", ")" >>,
    << "T", "r", "a", "v", "e", "l" >>,
    << "R", "e", "n", "t", " ", "(", "n", "o", "t", "-", "a", "-", "n", "u", "m", "b", "e", "r", ")" >>,
    << "R", "e", "n", "t", " ", "(", "5", ")" >>,
    << "R", "e", "n", "t", " ", "(", "0", ".", "5" >>,
    << "R", "e", "n", "t", " ", "0", ".", "5", ")" >>,
    << "I", "n", "s", "u", "r", "a", "n", "c", "e", " ", "(", "G", "e", "n", "e", "r", "a", "l", ")", " ", "(", "0", ".", "7", ")", " " >>,
    << "O", "f", "f", "i", "c", "e", " ", "S", "u", "p", "p", "l", "i", "e", "s", " ", "(", "0", ".", "8", "5", ")", "." >> }

\* line 86: the reply of call_openrouter is the content, stripped
call_openrouter_reply(content) == strip(content)

\* the names typed into, or picked in, the category management widgets
UiNames == { "", "Zoo" }

\* categories_db.json outlives the process: what an earlier session left
\* (nothing yet, or the single category that remained after the user added
\* "Zoo" and deleted the defaults)
PersistedTables == { << >>, << "Zoo" >> }

\* column names of the uploaded file
Headers == {
    << "Payee", "Amount" >>,
    << "Merchant Name", "Payee" >> }

ResultColumns == << "Merchant Name", "Expense Category", "Confidence", "Error Log" >>

\* line 197: every cell is text; the cell of column name, row r
Cell(name, r) == << name, ToString(r) >>

\* lines 190-197: the table read from the file
read_table(header, n) ==
    [k \in 1..Len(header) |->
        [name |-> header[k], values |-> [r \in 1..n |-> Cell(header[k], r)]]]

NoFile == [has_file |-> FALSE, table |-> << >>, selected_column |-> ""]

\* df[name]
column(d, name) == (CHOOSE k \in DOMAIN d : d[k].name = name)

has_column(d, name) == \E k \in DOMAIN d : d[k].name = name

column_values(d, name) == d[column(d, name)].values

\* len(df)
total_rows(d) == IF d = << >> THEN 0 ELSE Len(d[1].values)

\* df[name] = values (lines 234-237): pandas replaces the values of the column
\* of that name, and appends a column when there is none
set_column(d, name, values) ==
    IF has_column(d, name)
      THEN [k \in DOMAIN d |->
              IF d[k].name = name THEN [name |-> name, values |-> values] ELSE d[k]]
      ELSE Append(d, [name |-> name, values |-> values])

\* lines 234-237
assign_result_columns(d, ms, cs, ks, es) ==
    set_column(set_column(set_column(set_column(d,
        "Merchant Name", ms), "Expense Category", cs), "Confidence", ks), "Error Log", es)

\* the except branch with line 223 missing
except_without_log(m, c, k, e) ==
    [merchant |-> ERROR, category |-> UnknownMiscellaneous,
     confidence |-> EmptyConfidence, logs |-> << >>]

\* the except branch with line 221 missing: category keeps its last value
except_keeps_category(m, c, k, e) ==
    [merchant |-> ERROR, category |-> c,
     confidence |-> EmptyConfidence, logs |-> << e >>]

\* the except branch with line 220 missing: merchant keeps its last value
except_keeps_merchant(m, c, k, e) ==
    [merchant |-> m, category |-> UnknownMiscellaneous,
     confidence |-> EmptyConfidence, logs |-> << e >>]

\* lines 219-223: the locals after the except branch, and what it appends to
\* error_logs.  m, c, k are merchant, category, confidence when e is caught.
except_branch(m, c, k, e) ==
    [merchant |-> ERROR, category |-> UnknownMiscellaneous,
     confidence |-> EmptyConfidence, logs |-> << e >>]

\* line 217 reached whatever line 216 did
categorize_always(extracted) == "await_categorize"

\* lines 215-219: line 217 runs when line 216 returned; an exception of line
\* 216 goes to the except branch
step_after_extract(extracted) == IF extracted THEN "await_categorize" ELSE "except"

Pending == "pending"

\* a call_openrouter of the batch: the row (1-based), which of the two calls,
\* its input, the number of rows recorded when it was issued, and its outcome
Call(r, kind, input, recorded) ==
    [row |-> r, kind |-> kind, input |-> input, recorded |-> recorded,
     status |-> Pending, content |-> EmptyText, error |-> EmptyText]

-----------------------------------------------------------------------------
(* The script: one run per user interaction (Streamlit runs main.py from the *)
(* top each time), and within the batch one step per reply of the LLM.     *)

NoParse == [raised |-> FALSE, category |-> UnboundText, confidence |-> UnboundConfidence]

NoOp == [op |-> "none", arg |-> "", before |-> << >>]

\* the loop locals and accumulators of a run that has not reached line 205
BatchIdle ==
    /\ i' = 0
    /\ merchant' = UnboundText
    /\ category' = UnboundText
    /\ confidence' = UnboundConfidence
    /\ merchants' = << >>
    /\ categories' = << >>
    /\ confidences' = << >>
    /\ error_logs' = << >>
    /\ calls' = << >>

Init ==
    /\ category_table \in PersistedTables
    /\ current_categories = << >>
    /\ run_started_empty = FALSE
    /\ reads = << >>
    /\ last_op = NoOp
    /\ uploaded = NoFile
    /\ df = << >>
    /\ pc = "start"
    /\ i = 0
    /\ merchant = UnboundText
    /\ category = UnboundText
    /\ confidence = UnboundConfidence
    /\ merchants = << >>
    /\ categories = << >>
    /\ confidences = << >>
    /\ error_logs = << >>
    /\ calls = << >>
    /\ response = << >>
    /\ parsed = NoParse

\* The page is rendered and waits for the user.  From the result page
\* (pc = "done") every interaction is a new run that starts from the same
\* table, file and widgets as the run ScriptRun models, so a press there is
\* taken after that run.
AtRest == pc = "idle"

Read(by, list) == [by |-> by, list |-> list]

\* lines 64 and 170-172 of a run whose buttons are not pressed, and lines
\* 187-201 when a file is uploaded
ScriptRun ==
    /\ pc \in { "start", "rerun", "idle", "done" }
    /\ LET table == initialize_categories(category_table)
       IN  /\ category_table' = table
           /\ current_categories' = get_categories(table)
           /\ reads' = << Read("ui", get_categories(table)) >>
    /\ run_started_empty' = (Len(category_table) = 0)
    /\ df' = uploaded.table
    /\ pc' = "idle"
    /\ BatchIdle
    /\ UNCHANGED << last_op, uploaded, response, parsed >>

\* lines 185-201: the user uploads a file and selects the payee column
Upload(header, n, selected) ==
    /\ AtRest
    /\ LET table == initialize_categories(category_table)
       IN  /\ category_table' = table
           /\ current_categories' = get_categories(table)
           /\ reads' = << Read("ui", get_categories(table)) >>
    /\ run_started_empty' = (Len(category_table) = 0)
    /\ last_op' = NoOp
    /\ uploaded' = [has_file |-> TRUE, table |-> read_table(header, n),
                    selected_column |-> selected]
    /\ df' = read_table(header, n)
    /\ pc' = "idle"
    /\ BatchIdle
    /\ UNCHANGED << response, parsed >>

\* lines 174-177: "Add Category" pressed with new_cat in the text input
AddCategoryClick(new_cat) ==
    /\ AtRest
    /\ LET table == initialize_categories(category_table)
       IN  /\ category_table' = add_category(table, new_cat)
           /\ current_categories' = get_categories(table)
           /\ reads' = << Read("ui", get_categories(table)) >>
                        \o (IF new_cat # "" THEN << Read("add", get_categories(table)) >>
                            ELSE << >>)
           /\ last_op' = [op |-> "add", arg |-> new_cat, before |-> table]
    /\ run_started_empty' = (Len(category_table) = 0)
    /\ df' = << >>
    /\ pc' = "rerun"
    /\ BatchIdle
    /\ UNCHANGED << uploaded, response, parsed >>

\* lines 179-182: "Delete Selected" pressed; the selectbox offers the list of
\* line 170
DeleteCategoryClick(delete_cat) ==
    /\ AtRest
    /\ LET table == initialize_categories(category_table)
       IN  /\ delete_cat \in Range(get_categories(table))
           /\ category_table' = delete_category(table, delete_cat)
           /\ current_categories' = get_categories(table)
           /\ reads' = << Read("ui", get_categories(table)) >>
           /\ last_op' = [op |-> "delete", arg |-> delete_cat, before |-> table]
    /\ run_started_empty' = (Len(category_table) = 0)
    /\ df' = << >>
    /\ pc' = "rerun"
    /\ BatchIdle
    /\ UNCHANGED << uploaded, response, parsed >>

\* the text of row r (1-based) of the selected column, line 214
row_text(d, r) == column_values(d, uploaded.selected_column)[r]

\* the last call of the log with its outcome filled in
Returned(cs, status, reply, e) ==
    [cs EXCEPT ![Len(cs)] = [@ EXCEPT !.status = status, !.content = reply, !.error = e]]

\* lines 226-237 after the try statement left the locals loc: append to the
\* accumulators, then go on with the next row (line 216 issues its extraction
\* call) or, after the last row, assign the four columns.  A list of another
\* length than the frame makes the assignment of line 234-237 raise.
RecordRow(loc, cs) ==
    LET ms == Append(merchants, loc.merchant)
        cats == Append(categories, loc.category)
        ks == Append(confidences, loc.confidence)
        es == error_logs \o loc.logs
        n  == total_rows(df)
    IN  /\ merchant' = loc.merchant
        /\ category' = loc.category
        /\ confidence' = loc.confidence
        /\ merchants' = ms
        /\ categories' = cats
        /\ confidences' = ks
        /\ error_logs' = es
        /\ i' = i + 1
        /\ reads' = << >>
        /\ IF i + 1 < n
             THEN /\ calls' = Append(cs, Call(i + 2, "extract", row_text(df, i + 2), Len(ms)))
                  /\ pc' = "await_extract"
                  /\ df' = df
             ELSE /\ calls' = cs
                  /\ IF Len(ms) = n /\ Len(cats) = n /\ Len(ks) = n /\ Len(es) = n
                       THEN /\ df' = assign_result_columns(df, ms, cats, ks, es)
                            /\ pc' = "done"
                       ELSE /\ df' = df
                            /\ pc' = "crashed"

\* lines 113-126 of infer_expense_category(m): read the category list, fall
\* back to the one-entry list when it is empty, and issue the call
IssueCategorize(m, cs) ==
    /\ merchant' = m
    /\ reads' = << Read("row", get_categories(category_table)) >>
    /\ calls' = Append(cs, Call(i + 1, "categorize", m, Len(merchants)))
    /\ pc' = "await_categorize"
    /\ UNCHANGED << df, i, category, confidence, merchants, categories, confidences,
                    error_logs >>

\* lines 215-224 once line 216 has returned m, or raised e
AfterExtract(extracted, m, e, cs) ==
    IF step_after_extract(extracted) = "await_categorize"
      THEN IssueCategorize(m, cs)
      ELSE RecordRow(except_branch(m, category, confidence, e), cs)

\* line 203: the extraction button is pressed.  The run gets to line 216 of
\* the first row, or to line 237 when the table has no row.
StartBatch ==
    /\ AtRest
    /\ uploaded.has_file
    /\ LET table == initialize_categories(category_table)
       IN  /\ category_table' = table
           /\ current_categories' = get_categories(table)
           /\ reads' = << Read("ui", get_categories(table)) >>
    /\ run_started_empty' = (Len(category_table) = 0)
    /\ last_op' = NoOp
    /\ i' = 0
    /\ merchant' = UnboundText
    /\ category' = UnboundText
    /\ confidence' = UnboundConfidence
    /\ merchants' = << >>
    /\ categories' = << >>
    /\ confidences' = << >>
    /\ error_logs' = << >>
    /\ IF total_rows(uploaded.table) = 0
         THEN /\ df' = assign_result_columns(uploaded.table, << >>, << >>, << >>, << >>)
              /\ calls' = << >>
              /\ pc' = "done"
         ELSE /\ df' = uploaded.table
              /\ calls' = << Call(1, "extract", row_text(uploaded.table, 1), 0) >>
              /\ pc' = "await_extract"
    /\ UNCHANGED << uploaded, response, parsed >>

\* line 216: the extraction call returns content
ExtractReplies(content) ==
    /\ pc = "await_extract"
    /\ LET m == call_openrouter_reply(content)
       IN  AfterExtract(TRUE, m, EmptyText, Returned(calls, "ok", m, EmptyText))
    /\ UNCHANGED << category_table, current_categories, run_started_empty, last_op,
                    uploaded, response, parsed >>

\* line 216: the extraction call raises e
ExtractFails(e) ==
    /\ pc = "await_extract"
    /\ AfterExtract(FALSE, merchant, e, Returned(calls, "failed", EmptyText, e))
    /\ UNCHANGED << category_table, current_categories, run_started_empty, last_op,
                    uploaded, response, parsed >>

\* lines 126-137 and 218: the categorization call returns content
CategorizeReplies(content) ==
    /\ pc = "await_categorize"
    /\ LET resp == call_openrouter_reply(content)
           p    == parse_reply(resp)
           cs   == Returned(calls, "ok", resp, EmptyText)
       IN  IF p.raised
             THEN RecordRow(except_branch(merchant, category, confidence, ValueErrorMessage), cs)
             ELSE RecordRow([merchant |-> merchant, category |-> p.category,
                             confidence |-> p.confidence, logs |-> << EmptyText >>], cs)
    /\ UNCHANGED << category_table, current_categories, run_started_empty, last_op,
                    uploaded, response, parsed >>

\* line 126: the categorization call raises e
CategorizeFails(e) ==
    /\ pc = "await_categorize"
    /\ RecordRow(except_branch(merchant, category, confidence, e),
                 Returned(calls, "failed", EmptyText, e))
    /\ UNCHANGED << category_table, current_categories, run_started_empty, last_op,
                    uploaded, response, parsed >>

Next ==
    \/ ScriptRun
    \/ \E h \in Headers, n \in 0..MaxRows : \E sel \in Range(h) : Upload(h, n, sel)
    \/ \E new_cat \in UiNames : AddCategoryClick(new_cat)
    \/ \E delete_cat \in UiNames : DeleteCategoryClick(delete_cat)
    \/ StartBatch
    \/ \E content \in MerchantContents : ExtractReplies(content)
    \/ \E e \in ErrorMessages : ExtractFails(e)
    \/ \E content \in CategoryContents : CategorizeReplies(content)
    \/ \E e \in ErrorMessages : CategorizeFails(e)

Spec == Init /\ [][Next]_vars

-----------------------------------------------------------------------------
(* The store under any sequence of calls *)

\* the arguments of add_category and delete_category
ApiNames == { "", "Zoo", "Alpha", "office supplies", "Office Supplies",
              "Unknown / Miscellaneous" }

InitStore ==
    /\ category_table \in PersistedTables
    /\ current_categories = << >>
    /\ run_started_empty = FALSE
    /\ reads = << >>
    /\ last_op = NoOp
    /\ uploaded = NoFile
    /\ df = << >>
    /\ pc = "load"
    /\ i = 0
    /\ merchant = UnboundText
    /\ category = UnboundText
    /\ confidence = UnboundConfidence
    /\ merchants = << >>
    /\ categories = << >>
    /\ confidences = << >>
    /\ error_logs = << >>
    /\ calls = << >>
    /\ response = << >>
    /\ parsed = NoParse

StoreFrame ==
    UNCHANGED << run_started_empty, reads, uploaded, df, i, merchant, category,
                 confidence, merchants, categories, confidences, error_logs, calls,
                 response, parsed >>

\* line 64, at the start of every run of the script, then get_categories()
StoreInitialize ==
    /\ category_table' = initialize_categories(category_table)
    /\ current_categories' = get_categories(category_table')
    /\ last_op' = [op |-> "initialize", arg |-> "", before |-> category_table]
    /\ pc' = "store"
    /\ StoreFrame

\* add_category(new_cat), then get_categories()
StoreAdd(new_cat) ==
    /\ pc = "store"
    /\ category_table' = add_category(category_table, new_cat)
    /\ current_categories' = get_categories(category_table')
    /\ last_op' = [op |-> "add", arg |-> new_cat, before |-> category_table]
    /\ pc' = "store"
    /\ StoreFrame

\* delete_category(cat_name), then get_categories()
StoreDelete(cat_name) ==
    /\ pc = "store"
    /\ category_table' = delete_category(category_table, cat_name)
    /\ current_categories' = get_categories(category_table')
    /\ last_op' = [op |-> "delete", arg |-> cat_name, before |-> category_table]
    /\ pc' = "store"
    /\ StoreFrame

NextStore ==
    \/ StoreInitialize
    \/ \E new_cat \in ApiNames : StoreAdd(new_cat)
    \/ \E cat_name \in ApiNames : StoreDelete(cat_name)

SpecStore == InitStore /\ [][NextStore]_vars

-----------------------------------------------------------------------------
(* The parse of every short reply *)

\* the characters of the replies: a letter, the space, the parentheses, a
\* digit, the decimal point and the minus sign
ReplyAlphabet == { "R", " ", "(", ")", "5", ".", "-" }

\* every content of at most MaxReplyLen characters
ReplyContents == UNION { [1..n -> ReplyAlphabet] : n \in 0..MaxReplyLen }

InitParse ==
    /\ category_table = << >>
    /\ current_categories = << >>
    /\ run_started_empty = FALSE
    /\ reads = << >>
    /\ last_op = NoOp
    /\ uploaded = NoFile
    /\ df = << >>
    /\ pc = "reply"
    /\ i = 0
    /\ merchant = UnboundText
    /\ category = UnboundText
    /\ confidence = UnboundConfidence
    /\ merchants = << >>
    /\ categories = << >>
    /\ confidences = << >>
    /\ error_logs = << >>
    /\ calls = << >>
    /\ response \in ReplyContents
    /\ parsed = NoParse

\* lines 126-137: response = call_openrouter(prompt), then the parse
ParseReply ==
    /\ pc = "reply"
    /\ response' = call_openrouter_reply(response)
    /\ parsed' = parse_reply(response')
    /\ pc' = "parsed"
    /\ UNCHANGED << category_table, current_categories, run_started_empty, reads,
                    last_op, uploaded, df, i, merchant, category, confidence,
                    merchants, categories, confidences, error_logs, calls >>

NextParse == ParseReply

SpecParse == InitParse /\ [][NextParse]_vars

-----------------------------------------------------------------------------
(* What the log of the calls says about a row *)

\* rows whose result is in the accumulators
Recorded == 1..Len(merchants)

HasCall(r, kind) == \E k \in DOMAIN calls : calls[k].row = r /\ calls[k].kind = kind

CallOf(r, kind) == calls[CHOOSE k \in DOMAIN calls : calls[k].row = r /\ calls[k].kind = kind]

ExtractionFailed(r) == HasCall(r, "extract") /\ CallOf(r, "extract").status = "failed"

CategorizationFailed(r) ==
    HasCall(r, "categorize") /\ CallOf(r, "categorize").status = "failed"

BothReplied(r) ==
    /\ HasCall(r, "extract") /\ CallOf(r, "extract").status = "ok"
    /\ HasCall(r, "categorize") /\ CallOf(r, "categorize").status = "ok"

\* the result of a row as its own calls determine it
ExpectedRow(r) ==
    IF ExtractionFailed(r)
      THEN [merchant |-> ERROR, category |-> UnknownMiscellaneous,
            confidence |-> EmptyConfidence, error_log |-> CallOf(r, "extract").error]
    ELSE IF CategorizationFailed(r)
      THEN [merchant |-> ERROR, category |-> UnknownMiscellaneous,
            confidence |-> EmptyConfidence, error_log |-> CallOf(r, "categorize").error]
    ELSE [merchant |-> CallOf(r, "extract").content,
          category |-> parse_reply(CallOf(r, "categorize").content).category,
          confidence |-> parse_reply(CallOf(r, "categorize").content).confidence,
          error_log |-> EmptyText]

InputRows == total_rows(uploaded.table)

\* the four accumulators hold, at row r, the result of row r
RowIs(r, res) ==
    /\ r <= Len(merchants) /\ merchants[r] = res.merchant
    /\ r <= Len(categories) /\ categories[r] = res.category
    /\ r <= Len(confidences) /\ confidences[r] = res.confidence
    /\ r <= Len(error_logs) /\ error_logs[r] = res.error_log

\* column name of the frame holds, at row r, field v
ColumnHolds(name, n) == has_column(df, name) /\ Len(column_values(df, name)) = n

-----------------------------------------------------------------------------
(* C1 *)

\* C1: when the batch loop finishes, each of the four output columns holds
\* exactly N entries for an input of N rows, and entry r of each is the result
\* of input row r (its text was the input of the row's extraction call, its
\* values are those the outcomes of the row's own calls give), whatever calls
\* failed; the assignment of the columns never fails.
C1_OneResultPerRowInOrder ==
    /\ pc # "crashed"
    /\ pc = "done" =>
        /\ \A k \in DOMAIN ResultColumns : ColumnHolds(ResultColumns[k], InputRows)
        /\ \A r \in 1..InputRows :
            /\ HasCall(r, "extract")
            /\ CallOf(r, "extract").input = Cell(uploaded.selected_column, r)
            /\ column_values(df, "Merchant Name")[r] = ExpectedRow(r).merchant
            /\ column_values(df, "Expense Category")[r] = ExpectedRow(r).category
            /\ column_values(df, "Confidence")[r] = ExpectedRow(r).confidence
            /\ column_values(df, "Error Log")[r] = ExpectedRow(r).error_log

\* a finished batch of several rows, one of which failed and one of which did not
C1_Witness ==
    /\ pc = "done"
    /\ InputRows >= 2
    /\ \E r \in 1..InputRows : ExtractionFailed(r)
    /\ \E r \in 1..InputRows : BothReplied(r)

-----------------------------------------------------------------------------
(* C2 *)

\* C2: a recorded row whose extraction call failed has merchant "ERROR",
\* category "Unknown / Miscellaneous", confidence "" and a non-empty
\* error_log, and every other recorded row holds exactly what its own calls
\* give, as it would had that row not failed.
C2_FailedExtractionIsolated ==
    \A r \in Recorded :
        ExtractionFailed(r) =>
            /\ merchants[r] = ERROR
            /\ categories[r] = UnknownMiscellaneous
            /\ confidences[r] = EmptyConfidence
            /\ r <= Len(error_logs) /\ error_logs[r] # EmptyText
            /\ \A q \in Recorded \ { r } : RowIs(q, ExpectedRow(q))

\* a row that failed at extraction, recorded after a row that succeeded
C2_Witness ==
    \E r, q \in Recorded :
        /\ q < r
        /\ ExtractionFailed(r)
        /\ BothReplied(q)
        /\ categories[q] # UnknownMiscellaneous

-----------------------------------------------------------------------------
(* C3 *)

\* C3, as claimed: a recorded row whose extraction call succeeded and whose
\* categorization call failed has category "Unknown / Miscellaneous",
\* confidence "", the error in error_log, and the extracted merchant as
\* merchant_name.
C3_MerchantRetained ==
    \A r \in Recorded :
        (~ExtractionFailed(r) /\ CategorizationFailed(r)) =>
            /\ categories[r] = UnknownMiscellaneous
            /\ confidences[r] = EmptyConfidence
            /\ error_logs[r] = CallOf(r, "categorize").error
            /\ merchants[r] = CallOf(r, "extract").content

\* C3, amended: a recorded row whose extraction call succeeded and whose
\* categorization call failed has category "Unknown / Miscellaneous",
\* confidence "", the error in error_log, and merchant_name "ERROR": the
\* extracted merchant is discarded.
C3_MerchantDiscarded ==
    \A r \in Recorded :
        (~ExtractionFailed(r) /\ CategorizationFailed(r)) =>
            /\ categories[r] = UnknownMiscellaneous
            /\ confidences[r] = EmptyConfidence
            /\ r <= Len(error_logs) /\ error_logs[r] = CallOf(r, "categorize").error
            /\ merchants[r] = ERROR

\* a recorded row whose merchant was extracted and whose categorization failed
C3_Witness ==
    \E r \in Recorded :
        /\ ~ExtractionFailed(r)
        /\ CategorizationFailed(r)
        /\ CallOf(r, "extract").content # ERROR

-----------------------------------------------------------------------------
(* C4 *)

AfterLastParen(reply) == SubSeq(reply, LastIndex(reply, "(") + 1, Len(reply))

\* the reply holds no number to parse: it lacks "(" or ")", or what follows
\* its last "(" has no digit and does not spell inf or nan
NoNumber(reply) ==
    \/ ~contains(reply, "(")
    \/ ~contains(reply, ")")
    \/ /\ \A k \in DOMAIN AfterLastParen(reply) : AfterLastParen(reply)[k] \notin Digits
       /\ \A k \in 1..(Len(AfterLastParen(reply)) - 2) :
            SubSeq(AfterLastParen(reply), k, k + 2) \notin { << "i", "n", "f" >>, << "n", "a", "n" >> }

\* C4: a recorded row whose two calls both replied is a success whatever the
\* categorization reply: merchant_name is the extracted merchant, error_log is
\* "", and confidence is "" when the reply holds no number; no reply makes
\* the run fail.
C4_MalformedReplyIsSuccess ==
    /\ pc # "crashed"
    /\ \A r \in Recorded :
        BothReplied(r) =>
            /\ merchants[r] = CallOf(r, "extract").content
            /\ r <= Len(error_logs) /\ error_logs[r] = EmptyText
            /\ NoNumber(CallOf(r, "categorize").content) => confidences[r] = EmptyConfidence

\* a recorded success whose reply has a parenthesised text that is no number
C4_Witness ==
    \E r \in Recorded :
        /\ BothReplied(r)
        /\ contains(CallOf(r, "categorize").content, "(")
        /\ contains(CallOf(r, "categorize").content, ")")
        /\ NoNumber(CallOf(r, "categorize").content)
        /\ confidences[r] = EmptyConfidence

-----------------------------------------------------------------------------
(* C5 *)

\* the confidence a text gives: the number times 100 rounded to 2 decimals
\* when it is a number, "" otherwise
ConfidenceOfText(t) == IF float(t).ok THEN times100_round2(float(t)) ELSE EmptyConfidence

RECURSIVE WithoutClosing(_)
WithoutClosing(t) ==
    IF t = << >> THEN << >>
    ELSE IF Head(t) = ")" THEN WithoutClosing(Tail(t))
    ELSE << Head(t) >> \o WithoutClosing(Tail(t))

\* C5, as claimed: a reply with "(" and ")" is split on its last "("; the
\* category is the trimmed left part and the confidence comes from the content
\* of the right part before its last ")"; a reply without the pair gives the
\* whole trimmed reply and the empty confidence.
C5_ContentBeforeLastClosing ==
    pc = "parsed" =>
        IF contains(response, "(") /\ contains(response, ")")
          THEN \E k \in DOMAIN response :
                /\ response[k] = "("
                /\ \A j \in DOMAIN response : j > k => response[j] # "("
                /\ parsed.category = strip(SubSeq(response, 1, k - 1))
                /\ LET right == SubSeq(response, k + 1, Len(response))
                   IN  contains(right, ")") =>
                         parsed.confidence =
                           ConfidenceOfText(SubSeq(right, 1, LastIndex(right, ")") - 1))
          ELSE parsed.category = strip(response) /\ parsed.confidence = EmptyConfidence

\* C5, amended: a reply with "(" and ")" is split on its last "("; the
\* category is the trimmed left part and the confidence comes from the right
\* part with every ")" removed (that number times 100 rounded to 2 decimals
\* when it is a number, "" otherwise, the category still returned); a reply
\* that lacks "(" or lacks ")" gives the whole trimmed reply and the empty
\* confidence.  The parse raises nothing.
C5_RightPartWithoutClosing ==
    pc = "parsed" =>
        /\ ~parsed.raised
        /\ IF contains(response, "(") /\ contains(response, ")")
             THEN \E k \in DOMAIN response :
                   /\ response[k] = "("
                   /\ \A j \in DOMAIN response : j > k => response[j] # "("
                   /\ parsed.category = strip(SubSeq(response, 1, k - 1))
                   /\ parsed.confidence =
                        ConfidenceOfText(WithoutClosing(SubSeq(response, k + 1, Len(response))))
             ELSE parsed.category = strip(response) /\ parsed.confidence = EmptyConfidence

\* a parsed reply with two "(", text after its ")" and a number before it:
\* the confidence is empty although the content before the last ")" is a number
C5_Witness ==
    /\ pc = "parsed"
    /\ contains(response, ")")
    /\ \E j, k \in DOMAIN response : j < k /\ response[j] = "(" /\ response[k] = "("
    /\ LET right == AfterLastParen(response)
       IN  /\ contains(right, ")")
           /\ float(SubSeq(right, 1, LastIndex(right, ")") - 1)).ok
           /\ LastIndex(right, ")") < Len(right)
    /\ parsed.confidence = EmptyConfidence

-----------------------------------------------------------------------------
(* C6 *)

\* C6: every recorded confidence is "" or a number in [0,100] (0 to 10000
\* hundredths).
C6_ConfidenceInRange ==
    \A r \in DOMAIN confidences :
        \/ confidences[r] = EmptyConfidence
        \/ confidences[r].cls = "finite" /\ 0 <= confidences[r].val /\ confidences[r].val <= 100 * 100

-----------------------------------------------------------------------------
(* C7 *)

\* C7: after the batch every input column is still in the frame with its
\* values, and the four result columns are there in addition to the input
\* columns.
C7_InputColumnsKept ==
    pc = "done" =>
        /\ \A k \in DOMAIN uploaded.table :
            /\ has_column(df, uploaded.table[k].name)
            /\ column_values(df, uploaded.table[k].name) = uploaded.table[k].values
        /\ \A k \in DOMAIN ResultColumns : has_column(df, ResultColumns[k])
        /\ Len(df) = Len(uploaded.table) + Len(ResultColumns)

-----------------------------------------------------------------------------
(* C8 *)

NoDuplicates(t) == \A a, b \in DOMAIN t : a # b => t[a] # t[b]

\* sorted, and no name twice
StrictlySorted(l) == \A k \in 1..(Len(l) - 1) : StrLess(l[k], l[k + 1])

\* C8: after the first initialization and any calls of add_category and
\* delete_category, no two records of the store have the same name,
\* get_categories returns the stored names sorted and without duplicates, and
\* adding "" or an existing name, or deleting an absent name, leaves the
\* store as it was.
C8_StoreHasNoDuplicates ==
    pc = "store" =>
        /\ NoDuplicates(category_table)
        /\ StrictlySorted(current_categories)
        /\ Range(current_categories) = Range(category_table)
        /\ (last_op.op = "add" /\ (last_op.arg = "" \/ last_op.arg \in Range(last_op.before)))
              => category_table = last_op.before
        /\ (last_op.op = "add" /\ last_op.arg # "" /\ last_op.arg \notin Range(last_op.before))
              => category_table = Append(last_op.before, last_op.arg)
        /\ (last_op.op = "delete" /\ last_op.arg \notin Range(last_op.before))
              => category_table = last_op.before
        /\ last_op.op = "delete" => last_op.arg \notin Range(category_table)

\* an existing name has just been added again to a store that holds names
\* added after the defaults
C8_Witness ==
    /\ pc = "store"
    /\ last_op.op = "add"
    /\ last_op.arg \in Range(last_op.before)
    /\ Len(category_table) > Len(default_categories)

-----------------------------------------------------------------------------
(* C9 *)

\* C9: no read of the category list returns the empty list, and every read of
\* a run that found the store empty returns exactly the default vocabulary,
\* sorted and without duplicates.
C9_DefaultsBeforeAnyRead ==
    \A k \in DOMAIN reads :
        /\ reads[k].list # << >>
        /\ run_started_empty =>
            /\ Range(reads[k].list) = Range(default_categories)
            /\ Len(reads[k].list) = Len(default_categories)
            /\ StrictlySorted(reads[k].list)

\* the run after the user deleted the last category has read the list
C9_Witness ==
    /\ run_started_empty
    /\ last_op.op = "delete"
    /\ reads # << >>
    /\ pc = "idle"

-----------------------------------------------------------------------------
(* C10 *)

\* C10: the calls of a batch are strictly ordered: a call of row r is issued
\* when exactly the rows before r are recorded; a categorization call directly
\* follows the successful extraction call of its row; no row has two calls of
\* one kind (nothing is retried); only the last call can be pending; a
\* recorded row has issued one call when its extraction failed and two
\* otherwise.
C10_CallsStrictlyOrdered ==
    /\ \A k \in DOMAIN calls :
        /\ calls[k].recorded = calls[k].row - 1
        /\ calls[k].status = Pending => k = Len(calls)
        /\ calls[k].kind = "categorize" =>
            /\ k > 1
            /\ calls[k - 1].kind = "extract"
            /\ calls[k - 1].row = calls[k].row
            /\ calls[k - 1].status = "ok"
        /\ \A j \in DOMAIN calls :
            (j < k) => /\ calls[j].row <= calls[k].row
                       /\ ~(calls[j].row = calls[k].row /\ calls[j].kind = calls[k].kind)
    /\ \A r \in Recorded :
        Cardinality({ k \in DOMAIN calls : calls[k].row = r }) =
            IF ExtractionFailed(r) THEN 1 ELSE 2

\* a finished batch in which one row failed at extraction and another row
\* issued both calls
C10_Witness ==
    /\ pc = "done"
    /\ \E r \in Recorded : ExtractionFailed(r)
    /\ \E r \in Recorded : CategorizationFailed(r) \/ BothReplied(r)
    /\ Len(calls) >= 3

=============================================================================
